---- MODULE Spec2Model ----
(***************************************************************************)
(* A model of LoopSim (src/python/loopsim.py): the ring-road simulation    *)
(* harness.  The module models                                             *)
(*   - getCars, the neighbour query on the position-sorted snapshot        *)
(*     allCars (two bounded, optionally lane-filtered circular scans);     *)
(*   - simulate / _run, the tick loop that drives the external simulator   *)
(*     over the control connection and dispatches the car functions;       *)
(*   - _getEdge / _getX, the mapping between ring positions and            *)
(*     (edge, offset) pairs, and _addCars / _createCar, which place the    *)
(*     vehicles with it.                                                   *)
(* Python lists are 0-based; allCars is a TLA+ sequence, so the element    *)
(* the code calls allCars[i] is allCars[i + 1] here.                       *)
(***************************************************************************)
EXTENDS Integers, Sequences, FiniteSets, TLC

(***************************************************************************)
(* Bounds of the model.                                                    *)
(***************************************************************************)
MaxCars == 3        \* largest snapshot a neighbour query is tried on
Length == 5         \* ring circumference (LoopSim.length), positions 0..Length-1
MaxRoster == 2      \* largest total vehicle count of a simulated run
MaxSteps == 2       \* simSteps of a simulated run

\* LoopSim("loopsim", length=1000, numLanes=2)
NumLanes == 2

\* the default value of getCars' optional arguments: the argument is omitted
None == -1

Lanes == 0 .. (NumLanes - 1)
Positions == 0 .. (Length - 1)

\* the values tried for numBack / numForward, dxBack / dxForward and lane
NumArgs == {None, 1, 2}
DxArgs == {None, 0, 2}
LaneArgs == {None} \cup Lanes

\* carname = "%s-%03d" % (vtype, i)
CarNameOf(vtype, i) ==
    IF vtype = "human"
    THEN <<"human-000", "human-001", "human-002", "human-003", "human-004">>[i + 1]
    ELSE <<"robot-000", "robot-001", "robot-002", "robot-003", "robot-004">>[i + 1]

\* the vehicle type of a car (traci.vehicle.getTypeID): the one it was added with
TypeOf(name) ==
    IF \E i \in 0 .. 4 : name = CarNameOf("human", i) THEN "human" ELSE "robot"

\* self.carFns: params.get("function", None); only the robot type has a car function
HasCarFn(vtype) == vtype = "robot"

\* the record _run builds for one vehicle (edge and v play no part in the model)
Car(id, lane, x) == [id |-> id, type |-> TypeOf(id), lane |-> lane, x |-> x]

VARIABLES
    pc,         \* where the program is: see the actions
    simSteps,   \* self.simSteps
    step,       \* loop variable of _run
    carNames,   \* self.carNames, the roster
    numCars,    \* self.numCars
    allCars,    \* self.allCars, the snapshot of the current tick
    carIdx,     \* idx of the enumerate loop of _run that dispatches the car functions
    conn,       \* the TraCI control connection: "none", "open", "closed"
    proc,       \* self.sumoProcess: "none", "running", "waited"
    args,       \* arguments of the getCars call that returned last
    ret,        \* the list getCars returned
    cnt,        \* getCars' local cnt: length of the behind part of ret
    seenBack,   \* indices the backward loop of getCars iterated over, in order
    seenFwd,    \* indices the forward loop of getCars iterated over, in order
    mapIn,      \* arguments of the _getEdge / _getX call that returned last
    mapOut,     \* what that call returned
    setup,      \* the paramsList simulate was called with, while simulate uses it
    placed,     \* the vehicles as _createCar put them into the simulator, in order
    ticks,      \* number of traci.simulationStep() calls that returned
    calls       \* the car function calls of the current tick, in order

vars == <<pc, simSteps, step, carNames, numCars, allCars, carIdx, conn, proc,
          args, ret, cnt, seenBack, seenFwd, mapIn, mapOut, setup, placed, ticks, calls>>

runVars == <<simSteps, step, carNames, numCars, allCars, carIdx, conn, proc>>
callVars == <<args, ret, cnt, seenBack, seenFwd>>
mapVars == <<mapIn, mapOut>>
setupVars == <<setup, placed>>
logVars == <<ticks, calls>>

\* no _getEdge / _getX call has returned; simulate holds no paramsList
NoMap == [op |-> "none"]
NoSetup == <<>>

NoArgs == [idx |-> None, numBack |-> None, numForward |-> None,
           dxBack |-> None, dxForward |-> None, lane |-> None]

(***************************************************************************)
(* Python lists                                                            *)
(***************************************************************************)
Max0(a) == IF a > 0 THEN a ELSE 0

\* range(start, stop, -1)
RangeDown(start, stop) == [k \in 1 .. Max0(start - stop) |-> start - (k - 1)]

\* range(start, stop)
RangeUp(start, stop) == [k \in 1 .. Max0(stop - start) |-> start + (k - 1)]

\* s[i] raises IndexError unless -len(s) <= i < len(s)
IndexOk(s, i) == (0 - Len(s)) <= i /\ i < Len(s)

\* s[i]; a negative index counts from the end
At(s, i) == IF i >= 0 THEN s[i + 1] ELSE s[Len(s) + i + 1]

\* ret.insert(0, c)
Insert0(r, c) == <<c>> \o r

(***************************************************************************)
(* getCars                                                                 *)
(***************************************************************************)
\* mutants of the backward scan order: the second range stops one index late and
\* takes in the focal index; the wrap-round range is forgotten; the second range
\* runs down to index 0 and visits the focal index and those below it again; the
\* second range starts one index past the end of the list
BackOrderInclusive(idx, n) == RangeDown(idx - 1, -1) \o RangeDown(n - 1, idx - 1)
BackOrderNoWrap(idx, n) == RangeDown(idx - 1, -1)
BackOrderRevisit(idx, n) == RangeDown(idx - 1, -1) \o RangeDown(n - 1, -1)
BackOrderPastEnd(idx, n) == RangeDown(idx - 1, -1) \o RangeDown(n, idx)

\* range(idx-1, -1, -1) + range(self.numCars-1, idx, -1)
BackOrder(idx, n) == RangeDown(idx - 1, -1) \o RangeDown(n - 1, idx)

\* mutants of the forward scan order: the wrap-round range is forgotten; the first
\* range starts at the focal index
ForwardOrderNoWrap(idx, n) == RangeUp(idx + 1, n)
ForwardOrderFromIdx(idx, n) == RangeUp(idx, n) \o RangeUp(0, idx)

\* range(idx+1, self.numCars) + range(0, idx)
ForwardOrder(idx, n) == RangeUp(idx + 1, n) \o RangeUp(0, idx)

\* (x - c["x"]) % self.length
BackDist(x, cx, L) == (x - cx) % L

\* mutant of the forward distance: the plain difference of the positions, not
\* taken round the ring
FwdDistAbs(x, cx, L) == IF cx >= x THEN cx - x ELSE x - cx

\* (c["x"]-x) % self.length
FwdDist(x, cx, L) == (cx - x) % L

\* the condition of the break of the backward loop
BackBreak(x, c, dxBack, numBack, r) ==
    \/ (dxBack # None /\ BackDist(x, c.x, Length) > dxBack)
    \/ (numBack # None /\ Len(r) >= numBack)

\* the condition of the break of the forward loop
FwdBreak(x, c, dxForward, numForward, r, n0) ==
    \/ (dxForward # None /\ FwdDist(x, c.x, Length) > dxForward)
    \/ (numForward # None /\ (Len(r) - n0) >= numForward)

\* lane is None or c["lane"] == lane
LaneMatch(c, lane) == lane = None \/ c.lane = lane

RECURSIVE BackScan(_, _, _, _, _, _, _, _, _)
\* the first for loop of getCars, from its k-th iteration on; ok is FALSE when
\* self.allCars[i] raises IndexError
BackScan(cars, x, order, k, dxBack, numBack, lane, r, seen) ==
    IF k > Len(order) THEN [ret |-> r, seen |-> seen, ok |-> TRUE]
    ELSE IF ~IndexOk(cars, order[k]) THEN [ret |-> r, seen |-> seen, ok |-> FALSE]
    ELSE IF BackBreak(x, At(cars, order[k]), dxBack, numBack, r)
         THEN [ret |-> r, seen |-> seen, ok |-> TRUE]
    ELSE BackScan(cars, x, order, k + 1, dxBack, numBack, lane,
                  IF LaneMatch(At(cars, order[k]), lane)
                  THEN Insert0(r, At(cars, order[k])) ELSE r,
                  Append(seen, order[k]))

RECURSIVE FwdScanBudget(_, _, _, _, _, _, _, _, _, _)
\* mutant of the forward loop: a vehicle of another lane is skipped but uses up one
\* of the numForward vehicles asked for
FwdScanBudget(cars, x, order, k, dxForward, numForward, lane, r, n0, seen) ==
    IF k > Len(order) THEN [ret |-> r, seen |-> seen, ok |-> TRUE]
    ELSE IF ~IndexOk(cars, order[k]) THEN [ret |-> r, seen |-> seen, ok |-> FALSE]
    ELSE IF FwdBreak(x, At(cars, order[k]), dxForward, numForward, r, n0)
         THEN [ret |-> r, seen |-> seen, ok |-> TRUE]
    ELSE IF LaneMatch(At(cars, order[k]), lane)
         THEN FwdScanBudget(cars, x, order, k + 1, dxForward, numForward, lane,
                            Append(r, At(cars, order[k])), n0, Append(seen, order[k]))
         ELSE FwdScanBudget(cars, x, order, k + 1, dxForward, numForward, lane,
                            r, n0 - 1, Append(seen, order[k]))

RECURSIVE FwdScan(_, _, _, _, _, _, _, _, _, _)
\* the second for loop of getCars, from its k-th iteration on
FwdScan(cars, x, order, k, dxForward, numForward, lane, r, n0, seen) ==
    IF k > Len(order) THEN [ret |-> r, seen |-> seen, ok |-> TRUE]
    ELSE IF ~IndexOk(cars, order[k]) THEN [ret |-> r, seen |-> seen, ok |-> FALSE]
    ELSE IF FwdBreak(x, At(cars, order[k]), dxForward, numForward, r, n0)
         THEN [ret |-> r, seen |-> seen, ok |-> TRUE]
    ELSE FwdScan(cars, x, order, k + 1, dxForward, numForward, lane,
                 IF LaneMatch(At(cars, order[k]), lane)
                 THEN Append(r, At(cars, order[k])) ELSE r,
                 n0, Append(seen, order[k]))

\* LoopSim.getCars: the returned list, cnt, the indices either loop visited, and
\* whether the call returned (ok) or raised
getCars(cars, n, idx, numBack, numForward, dxBack, dxForward, lane) ==
    IF ~IndexOk(cars, idx)
    THEN [ret |-> <<>>, cnt |-> 0, seenBack |-> <<>>, seenFwd |-> <<>>, ok |-> FALSE]
    ELSE
    LET x == At(cars, idx).x
        back == BackScan(cars, x, BackOrder(idx, n), 1, dxBack, numBack, lane, <<>>, <<>>)
        n0 == Len(back.ret)
        fwd == FwdScan(cars, x, ForwardOrder(idx, n), 1, dxForward, numForward, lane,
                       back.ret, n0, <<>>)
    IN IF ~back.ok
       THEN [ret |-> back.ret, cnt |-> 0, seenBack |-> back.seen, seenFwd |-> <<>>,
             ok |-> FALSE]
       ELSE [ret |-> fwd.ret, cnt |-> n0, seenBack |-> back.seen, seenFwd |-> fwd.seen,
             ok |-> fwd.ok]

\* a car function calls sim.getCars(idx, ...): the call returns its list to the car
\* function, or an exception leaves the car function and _run
GetCars(idx, numBack, numForward, dxBack, dxForward, lane) ==
    /\ pc = "carFn"
    /\ \E res \in {getCars(allCars, numCars, idx, numBack, numForward,
                           dxBack, dxForward, lane)} :
        /\ ret' = res.ret
        /\ cnt' = res.cnt
        /\ seenBack' = res.seenBack
        /\ seenFwd' = res.seenFwd
        /\ pc' = IF res.ok THEN "returned" ELSE "raised"
    /\ args' = [idx |-> idx, numBack |-> numBack, numForward |-> numForward,
                dxBack |-> dxBack, dxForward |-> dxForward, lane |-> lane]
    /\ UNCHANGED runVars
    /\ UNCHANGED <<mapVars, setupVars, logVars>>

\* a caller that takes the result out of the snapshot itself
ReturnPops ==
    /\ pc = "returned"
    /\ pc' = "carFn"
    /\ args' = NoArgs
    /\ ret' = <<>>
    /\ cnt' = 0
    /\ seenBack' = <<>>
    /\ seenFwd' = <<>>
    /\ allCars' = SubSeq(allCars, 1, Len(allCars) - 1)
    /\ UNCHANGED <<simSteps, step, carNames, numCars, carIdx, conn, proc>>
    /\ UNCHANGED <<mapVars, setupVars, logVars>>

\* the car function goes on with the list; ret and cnt were locals of the call
Return ==
    /\ pc = "returned"
    /\ pc' = "carFn"
    /\ args' = NoArgs
    /\ ret' = <<>>
    /\ cnt' = 0
    /\ seenBack' = <<>>
    /\ seenFwd' = <<>>
    /\ UNCHANGED runVars
    /\ UNCHANGED <<mapVars, setupVars, logVars>>

(***************************************************************************)
(* The neighbour query as a function of the snapshot: any snapshot _run    *)
(* can leave (every roster vehicle once, ascending by x, equal positions   *)
(* allowed, any lanes), any focal index, any combination of arguments.     *)
(***************************************************************************)
Roster(n) == [i \in 1 .. n |-> IF i % 2 = 1 THEN CarNameOf("human", i \div 2)
                                           ELSE CarNameOf("robot", (i \div 2) - 1)]

QueryInit ==
    /\ \E n \in 1 .. MaxCars :
        \E xs \in [1 .. n -> Positions], ls \in [1 .. n -> Lanes] :
            /\ \A i \in 1 .. (n - 1) : xs[i] <= xs[i + 1]
            /\ allCars = [i \in 1 .. n |-> Car(Roster(n)[i], ls[i], xs[i])]
            /\ carNames = Roster(n)
            /\ numCars = n
    /\ pc = "carFn"
    /\ simSteps = 1
    /\ step = 0
    /\ carIdx = 0
    /\ conn = "open"
    /\ proc = "running"
    /\ args = NoArgs
    /\ ret = <<>>
    /\ cnt = 0
    /\ seenBack = <<>>
    /\ seenFwd = <<>>
    /\ mapIn = NoMap
    /\ mapOut = NoMap
    /\ setup = NoSetup
    /\ placed = <<>>
    /\ ticks = 0
    /\ calls = <<>>

\* carFn((idx, car), self, step) may query any index with any combination of the
\* optional arguments
CarFnCall ==
    /\ pc = "carFn"
    /\ \E idx \in 0 .. (numCars - 1), numBack \in NumArgs, numForward \in NumArgs,
          dxBack \in DxArgs, dxForward \in DxArgs, lane \in LaneArgs :
            GetCars(idx, numBack, numForward, dxBack, dxForward, lane)

QueryNext ==
    \/ CarFnCall
    \/ Return

SpecQuery == QueryInit /\ [][QueryNext]_vars

(***************************************************************************)
(* The position mapper: _getEdge and _getX.                                *)
(*                                                                         *)
(* edgelen = length/4. is not a whole number for every length, so the      *)
(* mapper is modelled in quarter units: a position or offset p stands for  *)
(* p/4, the start of an edge is k * Length for k = 0..3 and one edge is    *)
(* Length quarter units long.                                              *)
(***************************************************************************)
Edges == {"bottom", "right", "top", "left"}

\* self.edgestarts, times 4
EdgeStart(e) ==
    CASE e = "bottom" -> 0
      [] e = "right"  -> Length
      [] e = "top"    -> 2 * Length
      [] e = "left"   -> 3 * Length

\* the orders in which iteritems() can go through the four keys of a dict
EdgeOrders == {o \in [1..4 -> Edges] : \A i, j \in 1..4 : o[i] = o[j] => i = j}

\* the inputs the mapper is applied to: positions from below 0 to beyond the
\* loop length, offsets from 0 to beyond the edge length
MapXs == (0 - 1) .. (5 * Length - 1)
MapOffs == 0 .. (2 * Length - 1)

\* starte and startx before the loop of _getEdge: not bound
Unbound == [bound |-> FALSE, edge |-> "", off |-> 0]

\* the body of the loop of _getEdge for the k-th item of the table: every
\* edge that starts at or before x overwrites starte and startx
GetEdgeLoop(order, k, x, acc) ==
    IF x >= EdgeStart(order[k])
    THEN [bound |-> TRUE, edge |-> order[k], off |-> x - EdgeStart(order[k])]
    ELSE acc

\* _getEdge(x) when iteritems() goes through self.edgestarts in this order;
\* bound = FALSE: no edge matched, the return statement raises
GetEdge(order, x) ==
    GetEdgeLoop(order, 4, x,
        GetEdgeLoop(order, 3, x,
            GetEdgeLoop(order, 2, x,
                GetEdgeLoop(order, 1, x, Unbound))))

\* _getX that returns the offset alone
GetXNoStart(edge, position) == position

\* _getX(edge, position)
GetX(edge, position) == position + EdgeStart(edge)

\* _getEdge(x) followed by _getX on what it returned
GetEdgeCall ==
    /\ pc = "mapper"
    /\ \E order \in EdgeOrders, x \in MapXs :
          LET r == GetEdge(order, x) IN
          /\ mapIn' = [op |-> "getEdge", order |-> order, edge |-> "", pos |-> x]
          /\ mapOut' = [op |-> "getEdge", ok |-> r.bound, edge |-> r.edge, pos |-> r.off,
                        backOk |-> r.bound, backEdge |-> "",
                        backPos |-> IF r.bound THEN GetX(r.edge, r.off) ELSE 0]
    /\ pc' = "mapped"
    /\ UNCHANGED <<runVars, callVars, setupVars, logVars>>

\* _getX(edge, position) followed by _getEdge on what it returned
GetXCall ==
    /\ pc = "mapper"
    /\ \E order \in EdgeOrders, edge \in Edges, position \in MapOffs :
          LET x == GetX(edge, position)
              r == GetEdge(order, x) IN
          /\ mapIn' = [op |-> "getX", order |-> order, edge |-> edge, pos |-> position]
          /\ mapOut' = [op |-> "getX", ok |-> TRUE, edge |-> "", pos |-> x,
                        backOk |-> r.bound, backEdge |-> r.edge, backPos |-> r.off]
    /\ pc' = "mapped"
    /\ UNCHANGED <<runVars, callVars, setupVars, logVars>>

\* the caller takes the result
MapReturn ==
    /\ pc = "mapped"
    /\ pc' = "mapper"
    /\ mapIn' = NoMap
    /\ mapOut' = NoMap
    /\ UNCHANGED <<runVars, callVars, setupVars, logVars>>

\* a LoopSim object on which only the mapper is called
MapperInit ==
    /\ pc = "mapper"
    /\ simSteps = 0
    /\ step = 0
    /\ carNames = <<>>
    /\ numCars = 0
    /\ allCars = <<>>
    /\ carIdx = 0
    /\ conn = "none"
    /\ proc = "none"
    /\ args = NoArgs
    /\ ret = <<>>
    /\ cnt = 0
    /\ seenBack = <<>>
    /\ seenFwd = <<>>
    /\ mapIn = NoMap
    /\ mapOut = NoMap
    /\ setup = NoSetup
    /\ placed = <<>>
    /\ ticks = 0
    /\ calls = <<>>

MapperNext ==
    \/ GetEdgeCall
    \/ GetXCall
    \/ MapReturn

SpecMapper == MapperInit /\ [][MapperNext]_vars


(***************************************************************************)
(* simulate and _run                                                       *)
(***************************************************************************)
\* a sort that puts c before the elements of equal x
InsertByXBefore(s, c) ==
    LET k == Cardinality({i \in 1 .. Len(s) : s[i].x < c.x})
    IN SubSeq(s, 1, k) \o <<c>> \o SubSeq(s, k + 1, Len(s))

\* list.sort(key=lambda x: x["x"]) is stable: c goes after every element whose x
\* is not larger
InsertByX(s, c) ==
    LET k == Cardinality({i \in 1 .. Len(s) : s[i].x <= c.x})
    IN SubSeq(s, 1, k) \o <<c>> \o SubSeq(s, k + 1, Len(s))

RECURSIVE SortByX(_)
SortByX(s) == IF s = <<>> THEN <<>>
              ELSE InsertByX(SortByX(SubSeq(s, 1, Len(s) - 1)), s[Len(s)])

\* the car names _addCars creates for counts h of type human and r of type robot
AddedCars(h, r) == [i \in 1 .. (h + r) |-> IF i <= h THEN CarNameOf("human", i - 1)
                                                      ELSE CarNameOf("robot", i - h - 1)]

Init ==
    /\ pc = "idle"
    /\ simSteps = 0
    /\ step = 0
    /\ carNames = <<>>
    /\ numCars = 0
    /\ allCars = <<>>
    /\ carIdx = 0
    /\ conn = "none"
    /\ proc = "none"
    /\ args = NoArgs
    /\ ret = <<>>
    /\ cnt = 0
    /\ seenBack = <<>>
    /\ seenFwd = <<>>
    /\ mapIn = NoMap
    /\ mapOut = NoMap
    /\ setup = NoSetup
    /\ placed = <<>>
    /\ ticks = 0
    /\ calls = <<>>

(***************************************************************************)
(* simulate(opts) up to the call of _run.  opts["paramsList"] holds one    *)
(* type spec named "human" without a car function and one named "robot"    *)
(* with one; the names of a list are taken to be distinct (they become the *)
(* vehicle type ids of the simulator).                                     *)
(***************************************************************************)
\* param.get("laneSpread", True): True, or a lane index, which nothing keeps
\* within 0 .. numLanes-1
Spread == None - 1
LaneSpreads == {Spread} \cup Lanes \cup {NumLanes}

\* the paramsList with these counts and laneSpread values; unknown: a type spec
\* carries a key that KNOWN_PARAMS does not have
ParamsList(h, r, lsH, lsR, unknown) ==
    [count |-> <<h, r>>, laneSpread |-> <<lsH, lsR>>, unknown |-> unknown]

\* the orders a list of n items can be in: random.shuffle(carsitems), cars.keys()
Orders(n) == {o \in [1 .. n -> 1 .. n] : \A i, j \in 1 .. n : o[i] = o[j] => i = j}

\* x = self.length * i / self.numCars: both operands are integers, / rounds down
PlaceX(i, n) == (Length * i) \div n

\* lane if laneSpread is True else laneSpread, where lane is i % numLanes for the
\* i-th car created
PlaceLane(i, laneSpread) == IF laneSpread = Spread THEN i % NumLanes ELSE laneSpread

\* what _createCar(name, x, vtype, lane) hands the simulator: addFull on the
\* route of the edge _getEdge found, moveTo lane and offset on that edge
CreateCar(name, x, lane, order) ==
    [id |-> name, x |-> x, lane |-> lane,
     edge |-> GetEdge(order, 4 * x).edge, off |-> GetEdge(order, 4 * x).off]

\* the calls of _createCar in the loop of _addCars: names are the shuffled
\* carsitems, order the iteration order of self.edgestarts
CreatedCars(names, p, order) ==
    [k \in 1 .. Len(names) |->
        CreateCar(names[k], PlaceX(k - 1, Len(names)),
                  PlaceLane(k - 1, p.laneSpread[IF TypeOf(names[k]) = "human" THEN 1 ELSE 2]),
                  order)]

\* the simulator refuses every vehicle
RefusesAny(c) == TRUE

\* traci.vehicle.moveTo can fail for this vehicle: the lane does not exist or
\* the offset is not on the edge
Refuses(c) == c.lane \notin Lanes \/ c.off >= Length

\* _simInit starts the simulator process and opens the control connection,
\* _addTypes skips the keys KNOWN_PARAMS does not have, _addCars creates the cars
Simulate ==
    /\ pc = "idle"
    /\ \E h \in 0 .. MaxRoster, r \in 0 .. MaxRoster :
        /\ h + r <= MaxRoster
        /\ \E lsH \in LaneSpreads, lsR \in LaneSpreads, unknown \in BOOLEAN,
              shuffle \in Orders(h + r), keys \in Orders(h + r), order \in EdgeOrders :
            LET p == ParamsList(h, r, lsH, lsR, unknown)
                cars == AddedCars(h, r)
            IN /\ setup' = p
               /\ numCars' = h + r
               /\ placed' = CreatedCars([k \in 1 .. (h + r) |-> cars[shuffle[k]]], p, order)
               /\ carNames' = [k \in 1 .. (h + r) |-> cars[keys[k]]]
    /\ proc' = "running"
    /\ conn' = "open"
    /\ simSteps' = MaxSteps
    /\ pc' = "setupDone"
    /\ UNCHANGED <<step, allCars, carIdx, ticks, calls>>
    /\ UNCHANGED callVars
    /\ UNCHANGED mapVars

\* the same, but the simulator refuses the k-th vehicle: the exception leaves
\* _createCar, _addCars and simulate; self.carNames is not assigned
CreateCarRaises ==
    /\ pc = "idle"
    /\ \E h \in 0 .. MaxRoster, r \in 0 .. MaxRoster :
        /\ h + r <= MaxRoster
        /\ \E lsH \in LaneSpreads, lsR \in LaneSpreads, unknown \in BOOLEAN,
              shuffle \in Orders(h + r), order \in EdgeOrders, k \in 1 .. (h + r) :
            LET p == ParamsList(h, r, lsH, lsR, unknown)
                cars == AddedCars(h, r)
                created == CreatedCars([j \in 1 .. (h + r) |-> cars[shuffle[j]]], p, order)
            IN /\ Refuses(created[k])
               /\ setup' = p
               /\ numCars' = h + r
               /\ placed' = SubSeq(created, 1, k)
    /\ proc' = "running"
    /\ conn' = "open"
    /\ simSteps' = MaxSteps
    /\ pc' = "rejected"
    /\ UNCHANGED <<step, carNames, allCars, carIdx, ticks, calls>>
    /\ UNCHANGED callVars
    /\ UNCHANGED mapVars

\* self._run(self.simSteps): paramsList is not used again, the simulator moves
\* the vehicles from now on
Run ==
    /\ pc = "setupDone"
    /\ setup' = NoSetup
    /\ placed' = <<>>
    /\ step' = 0
    /\ pc' = "loop"
    /\ UNCHANGED <<simSteps, carNames, numCars, allCars, carIdx, conn, proc, ticks, calls>>
    /\ UNCHANGED callVars
    /\ UNCHANGED mapVars

\* for step in range(simSteps): traci.simulationStep(); self.allCars = []
SimulationStep ==
    /\ pc = "loop"
    /\ step < simSteps
    /\ ticks' = ticks + 1
    /\ allCars' = <<>>
    /\ calls' = <<>>
    /\ pc' = "read"
    /\ UNCHANGED <<simSteps, step, carNames, numCars, carIdx, conn, proc>>
    /\ UNCHANGED callVars
    /\ UNCHANGED <<mapVars, setupVars>>

\* the snapshot is rebuilt from what the simulator reports for each roster vehicle
\* (x is _getX of its edge and lane position) and sorted by x
ReadCars ==
    /\ pc = "read"
    /\ \E xs \in [1 .. Len(carNames) -> Positions], ls \in [1 .. Len(carNames) -> Lanes] :
        allCars' = SortByX([i \in 1 .. Len(carNames) |-> Car(carNames[i], ls[i], xs[i])])
    /\ carIdx' = 0
    /\ pc' = "dispatch"
    /\ UNCHANGED <<simSteps, step, carNames, numCars, conn, proc>>
    /\ UNCHANGED callVars
    /\ UNCHANGED <<mapVars, setupVars, logVars>>

\* carFn with a wrong index
CarFnArgsNextIdx(idx, car, stepNo) == [idx |-> idx + 1, car |-> car, step |-> stepNo]

\* the arguments of carFn((idx, car), self, step)
CarFnArgs(idx, car, stepNo) == [idx |-> idx, car |-> car, step |-> stepNo]

\* for (idx, car) in enumerate(self.allCars): a car whose type has a function
\* gets it called
DispatchCarFn ==
    /\ pc = "dispatch"
    /\ carIdx < Len(allCars)
    /\ HasCarFn(At(allCars, carIdx).type)
    /\ calls' = Append(calls, CarFnArgs(carIdx, At(allCars, carIdx), step))
    /\ pc' = "carFn"
    /\ UNCHANGED runVars
    /\ UNCHANGED callVars
    /\ UNCHANGED <<mapVars, setupVars, ticks>>

\* carFn is None: the next car
DispatchSkip ==
    /\ pc = "dispatch"
    /\ carIdx < Len(allCars)
    /\ ~HasCarFn(At(allCars, carIdx).type)
    /\ carIdx' = carIdx + 1
    /\ UNCHANGED <<pc, simSteps, step, carNames, numCars, allCars, conn, proc>>
    /\ UNCHANGED callVars
    /\ UNCHANGED <<mapVars, setupVars, logVars>>

\* the car function asks for the neighbours of its own car
CarFnQuery ==
    /\ pc = "carFn"
    /\ \E lane \in LaneArgs : GetCars(carIdx, 1, 1, None, None, lane)

\* the car function returns
CarFnDone ==
    /\ pc = "carFn"
    /\ carIdx' = carIdx + 1
    /\ pc' = "dispatch"
    /\ UNCHANGED <<simSteps, step, carNames, numCars, allCars, conn, proc>>
    /\ UNCHANGED callVars
    /\ UNCHANGED <<mapVars, setupVars, logVars>>

\* the enumerate loop is through: the next step
NextStep ==
    /\ pc = "dispatch"
    /\ carIdx = Len(allCars)
    /\ step' = step + 1
    /\ pc' = "loop"
    /\ UNCHANGED <<simSteps, carNames, numCars, allCars, carIdx, conn, proc>>
    /\ UNCHANGED callVars
    /\ UNCHANGED <<mapVars, setupVars, logVars>>

\* traci.close() without the loop being through
CloseAnyStep ==
    /\ pc = "loop"
    /\ conn' = "closed"
    /\ pc' = "wait"
    /\ UNCHANGED <<simSteps, step, carNames, numCars, allCars, carIdx, proc>>
    /\ UNCHANGED callVars
    /\ UNCHANGED <<mapVars, setupVars, logVars>>

\* after the loop: traci.close()
Close ==
    /\ pc = "loop"
    /\ step = simSteps
    /\ conn' = "closed"
    /\ pc' = "wait"
    /\ UNCHANGED <<simSteps, step, carNames, numCars, allCars, carIdx, proc>>
    /\ UNCHANGED callVars
    /\ UNCHANGED <<mapVars, setupVars, logVars>>

\* self.sumoProcess.wait()
Wait ==
    /\ pc = "wait"
    /\ proc' = "waited"
    /\ pc' = "done"
    /\ UNCHANGED <<simSteps, step, carNames, numCars, allCars, carIdx, conn>>
    /\ UNCHANGED callVars
    /\ UNCHANGED <<mapVars, setupVars, logVars>>

\* traci.simulationStep() raises (the simulator is gone, the connection lost):
\* _run has no handler, the exception leaves _run and simulate
SimulationStepRaises ==
    /\ pc = "loop"
    /\ step < simSteps
    /\ pc' = "raised"
    /\ UNCHANGED runVars
    /\ UNCHANGED callVars
    /\ UNCHANGED <<mapVars, setupVars, logVars>>

\* a traci.vehicle getter or _getX raises while the snapshot is rebuilt
ReadCarsRaises ==
    /\ pc = "read"
    /\ Len(carNames) > 0
    /\ pc' = "raised"
    /\ UNCHANGED runVars
    /\ UNCHANGED callVars
    /\ UNCHANGED <<mapVars, setupVars, logVars>>

\* the car function raises
CarFnRaises ==
    /\ pc = "carFn"
    /\ pc' = "raised"
    /\ UNCHANGED runVars
    /\ UNCHANGED callVars
    /\ UNCHANGED <<mapVars, setupVars, logVars>>

Next ==
    \/ Simulate
    \/ CreateCarRaises
    \/ Run
    \/ SimulationStep
    \/ ReadCars
    \/ DispatchCarFn
    \/ DispatchSkip
    \/ CarFnQuery
    \/ Return
    \/ CarFnDone
    \/ NextStep
    \/ Close
    \/ Wait
    \/ SimulationStepRaises
    \/ ReadCarsRaises
    \/ CarFnRaises

Spec == Init /\ [][Next]_vars

(***************************************************************************)
(* Vocabulary of the claims about getCars.  These definitions restate the  *)
(* claims over the state a returned call leaves; they use none of the      *)
(* operators that model the code.                                          *)
(***************************************************************************)
Called == pc = "returned"

\* the focal vehicle of the call
Focal == allCars[args.idx + 1]

\* the part of the result the backward loop built, and the part the forward loop built
Behind == SubSeq(ret, 1, cnt)
Ahead == SubSeq(ret, cnt + 1, Len(ret))

Ids(s) == {s[i].id : i \in 1 .. Len(s)}
NoRepeat(s) == \A i, j \in 1 .. Len(s) : i # j => s[i].id # s[j].id
Others == Ids(allCars) \ {Focal.id}

\* circular distances from the focal vehicle
DistBehind(c) == (Focal.x - c.x) % Length
DistAhead(c) == (c.x - Focal.x) % Length

\* the other vehicles in circular snapshot order, nearest first
RingAhead == [j \in 1 .. (numCars - 1) |-> allCars[((args.idx + j) % numCars) + 1]]
RingBehind == [j \in 1 .. (numCars - 1) |-> allCars[((args.idx - j) % numCars) + 1]]

Min(a, b) == IF a <= b THEN a ELSE b
Take(s, k) == SubSeq(s, 1, Min(k, Len(s)))
Reverse(s) == [i \in 1 .. Len(s) |-> s[Len(s) + 1 - i]]
InLane(s, l) == SelectSeq(s, LAMBDA c : l = None \/ c.lane = l)

NoLimits ==
    /\ args.numBack = None /\ args.numForward = None
    /\ args.dxBack = None /\ args.dxForward = None
    /\ args.lane = None

DistinctPositions == \A i, j \in 1 .. Len(allCars) : i # j => allCars[i].x # allCars[j].x

\* C1 (as stated): the list getCars returns has at most N-1 entries.
C1_AtMostNMinusOne == Called => Len(ret) <= numCars - 1

\* C1 (amended): the behind part and the ahead part of the list getCars returns
\* have at most N-1 entries each, so the list has at most 2(N-1) entries.
C1_AtMostNMinusOnePerPart ==
    Called => /\ Len(Behind) <= numCars - 1
              /\ Len(Ahead) <= numCars - 1
              /\ Len(ret) <= 2 * (numCars - 1)

C1_Witness == Called /\ numCars = 3 /\ Len(Behind) = 2 /\ Len(Ahead) = 2

\* C2 (as stated): with no limits and no lane filter getCars returns exactly the
\* other N-1 vehicles, each once, in a behind part and an ahead part that do not
\* overlap.
C2_OthersOnce ==
    (Called /\ NoLimits) =>
        /\ Len(ret) = numCars - 1
        /\ NoRepeat(ret)
        /\ Ids(ret) = Others
        /\ Ids(Behind) \cap Ids(Ahead) = {}

\* C2 (amended): with no limits and no lane filter the behind part holds exactly the
\* other N-1 vehicles, each once, and so does the ahead part: no vehicle is
\* omitted, and every other vehicle is returned twice, once in each part.
C2_OthersOncePerPart ==
    (Called /\ NoLimits) =>
        /\ Len(Behind) = numCars - 1 /\ NoRepeat(Behind) /\ Ids(Behind) = Others
        /\ Len(Ahead) = numCars - 1 /\ NoRepeat(Ahead) /\ Ids(Ahead) = Others

C2_Witness == Called /\ NoLimits /\ numCars = 3 /\ Len(ret) = 4 /\ args.idx = 2

\* C4: the list getCars returns never contains the focal vehicle.
C4_FocalExcluded == Called => \A i \in 1 .. Len(ret) : ret[i].id # Focal.id

C4_Witness == Called /\ numCars = 3 /\ args.idx = 1 /\ Len(ret) = 4

\* C5 (as stated): the behind part is in non-increasing backward distance and is
\* followed by the ahead part in non-decreasing forward distance, equal positions
\* allowed.
C5_OrderedByDistance ==
    Called =>
        /\ \A i \in 1 .. (Len(Behind) - 1) :
              DistBehind(Behind[i]) >= DistBehind(Behind[i + 1])
        /\ \A i \in 1 .. (Len(Ahead) - 1) :
              DistAhead(Ahead[i]) <= DistAhead(Ahead[i + 1])

\* C6: with a lane filter and a count limit k, the ahead part is the first k
\* vehicles of that lane met going ahead round the ring (all of them when fewer
\* than k exist), whatever lies in other lanes in between, and the behind part
\* likewise going back; unless a vehicle shares the focal position these are the k
\* of that lane at the smallest circular distance.
C6_LaneSkipKeepsBudget ==
    (Called /\ args.lane # None) =>
        /\ (args.numForward # None /\ args.dxForward = None) =>
              /\ Ahead = Take(InLane(RingAhead, args.lane), args.numForward)
              /\ (\A i \in 1 .. Len(allCars) : i # args.idx + 1 => allCars[i].x # Focal.x) =>
                    \A i \in 1 .. Len(Ahead), j \in 1 .. Len(allCars) :
                        ( /\ allCars[j].lane = args.lane
                          /\ allCars[j].id \notin (Ids(Ahead) \cup {Focal.id}) )
                        => DistAhead(Ahead[i]) <= DistAhead(allCars[j])
        /\ (args.numBack # None /\ args.dxBack = None) =>
              /\ Behind = Reverse(Take(InLane(RingBehind, args.lane), args.numBack))
              /\ (\A i \in 1 .. Len(allCars) : i # args.idx + 1 => allCars[i].x # Focal.x) =>
                    \A i \in 1 .. Len(Behind), j \in 1 .. Len(allCars) :
                        ( /\ allCars[j].lane = args.lane
                          /\ allCars[j].id \notin (Ids(Behind) \cup {Focal.id}) )
                        => DistBehind(Behind[i]) <= DistBehind(allCars[j])

\* vehicles at 0 (lane 0), next (lane 1), last (lane 0): ahead of index 0 in lane 0
\* with numForward = 1 is the last one
C6_Witness ==
    /\ Called /\ numCars = 3 /\ args.idx = 0
    /\ args.lane = 0 /\ args.numForward = 1 /\ args.dxForward = None
    /\ allCars[2].lane = 1 /\ allCars[3].lane = 0
    /\ allCars[1].x < allCars[2].x /\ allCars[2].x < allCars[3].x
    /\ Ahead = <<allCars[3]>>

\* C7: at distinct positions and N >= 2, getCars with numBack = 1 and numForward = 1
\* and nothing else returns the circular predecessor followed by the circular
\* successor of the focal vehicle.
C7_PredecessorSuccessor ==
    ( /\ Called /\ numCars >= 2 /\ DistinctPositions
      /\ args.numBack = 1 /\ args.numForward = 1
      /\ args.dxBack = None /\ args.dxForward = None /\ args.lane = None )
    => ret = << allCars[((args.idx - 1) % numCars) + 1],
                allCars[((args.idx + 1) % numCars) + 1] >>

\* the first index: the backward scan wraps round to the last vehicle
C7_Witness ==
    /\ Called /\ numCars = 3 /\ DistinctPositions /\ args.idx = 0
    /\ args.numBack = 1 /\ args.numForward = 1
    /\ args.dxBack = None /\ args.dxForward = None /\ args.lane = None
    /\ ret = <<allCars[3], allCars[2]>>

\* the first candidate of a scan order beyond the limit d, or Len(s) + 1
FirstBeyond(s, D(_), d) ==
    IF \E j \in 1 .. Len(s) : D(s[j]) > d
    THEN CHOOSE j \in 1 .. Len(s) :
            /\ D(s[j]) > d
            /\ \A k \in 1 .. (j - 1) : D(s[k]) <= d
    ELSE Len(s) + 1

\* the candidates a scan reaches before its distance limit stops it
Within(s, D(_), d) == IF d = None THEN s ELSE SubSeq(s, 1, FirstBeyond(s, D, d) - 1)

\* C8: distances are taken modulo the ring length (on a ring of 10, 9 sees 1 at
\* forward distance 2 and 1 sees 9 at backward distance 2), no vehicle of the
\* behind part is farther back than dxBack, none of the ahead part farther ahead
\* than dxForward, and each scan stops at the first candidate beyond its limit.
C8_WithinDistanceLimit ==
    /\ FwdDist(9, 1, 10) = 2
    /\ BackDist(1, 9, 10) = 2
    /\ Called =>
        /\ args.dxBack # None =>
              /\ \A i \in 1 .. Len(Behind) : DistBehind(Behind[i]) <= args.dxBack
              /\ \A k \in 1 .. Len(seenBack) :
                    seenBack[k] + 1 \in 1 .. Len(allCars)
                    /\ DistBehind(allCars[seenBack[k] + 1]) <= args.dxBack
              /\ args.numBack = None =>
                    Len(seenBack) = Len(Within(RingBehind, DistBehind, args.dxBack))
        /\ args.dxForward # None =>
              /\ \A i \in 1 .. Len(Ahead) : DistAhead(Ahead[i]) <= args.dxForward
              /\ \A k \in 1 .. Len(seenFwd) :
                    seenFwd[k] + 1 \in 1 .. Len(allCars)
                    /\ DistAhead(allCars[seenFwd[k] + 1]) <= args.dxForward
              /\ args.numForward = None =>
                    Len(seenFwd) = Len(Within(RingAhead, DistAhead, args.dxForward))

\* the focal vehicle at Length-1 sees the vehicle at 1 ahead of it, at distance 2
C8_Witness ==
    /\ Called /\ Focal.x = Length - 1 /\ args.dxForward = 2
    /\ \E i \in 1 .. Len(Ahead) : Ahead[i].x = 1
    /\ \A j \in 1 .. Len(allCars) : allCars[j].x \in {1, Length - 1}

NoRepeatIdx(s) == \A i, j \in 1 .. Len(s) : i # j => s[i] # s[j]

\* C9: every call of getCars returns; each of its two scans visits each non-focal
\* index at most once and never the focal index; with N = 1 the result is empty.
C9_ScansTerminate ==
    /\ pc # "raised"
    /\ Called =>
        /\ NoRepeatIdx(seenBack) /\ NoRepeatIdx(seenFwd)
        /\ \A k \in 1 .. Len(seenBack) :
              seenBack[k] \in (0 .. (numCars - 1)) \ {args.idx}
        /\ \A k \in 1 .. Len(seenFwd) :
              seenFwd[k] \in (0 .. (numCars - 1)) \ {args.idx}
        /\ Len(seenBack) <= numCars - 1 /\ Len(seenFwd) <= numCars - 1
        /\ numCars = 1 => ret = <<>>

C9_Witness == Called /\ numCars = 1 /\ ret = <<>> /\ NoLimits

\* the vehicles available to a scan: those of the lane among the candidates within
\* the distance limit
AvailBehind == InLane(Within(RingBehind, DistBehind, args.dxBack), args.lane)
AvailAhead == InLane(Within(RingAhead, DistAhead, args.dxForward), args.lane)

\* C10: a call whose numBack or numForward exceeds the number of vehicles available
\* in that direction (after lane and distance filtering) returns normally, with
\* exactly the available vehicles in that part.
C10_UnderSupplyReturns ==
    /\ pc # "raised"
    /\ Called =>
        /\ (args.numBack # None /\ args.numBack > Len(AvailBehind)) =>
              Behind = Reverse(AvailBehind)
        /\ (args.numForward # None /\ args.numForward > Len(AvailAhead)) =>
              Ahead = AvailAhead

\* two vehicles, two asked for on either side: one is returned on either side
C10_Witness ==
    /\ Called /\ numCars = 2 /\ args.numBack = 2 /\ args.numForward = 2
    /\ args.lane = None /\ args.dxBack = None /\ args.dxForward = None
    /\ Len(Behind) = 1 /\ Len(Ahead) = 1

(***************************************************************************)
(* The run                                                                 *)
(***************************************************************************)
\* the run is over: _run returned, or an exception left it
Exited == pc \in {"done", "raised"}

\* C3 (as stated): on every exit path of the run, normal or by a failure of a
\* simulator call or of a car function, the control connection is closed and the
\* simulator process waited for.
C3_ReleasedOnEveryExit == Exited => (conn = "closed" /\ proc = "waited")


(***************************************************************************)
(* Claims about the position mapper, checked under SpecMapper              *)
(***************************************************************************)
\* the call of the given mapper operation has just returned
Mapped(op) == pc = "mapped" /\ mapIn.op = op

\* a position on the loop: 0 <= x < L, in quarter units
OnLoop(x) == 0 <= x /\ x < 4 * Length

\* the edges in the order they lie on the loop, the k-th starting at (k-1) * L/4
RingEdges == <<"bottom", "right", "top", "left">>
StartOf(e) == ((CHOOSE k \in 1..4 : RingEdges[k] = e) - 1) * Length

\* C11: for every position x with 0 <= x < L, mapping x to (edge, offset) with
\* _getEdge and mapping that pair back with _getX yields x.
C11_RoundTrip ==
    (Mapped("getEdge") /\ OnLoop(mapIn.pos)) =>
        /\ mapOut.ok
        /\ mapOut.backPos = mapIn.pos

\* a position on the last edge is mapped while "bottom" comes last in the table
C11_Witness ==
    /\ Mapped("getEdge")
    /\ mapIn.pos = 4 * Length - 1
    /\ mapIn.order[4] = "bottom"
    /\ mapOut.ok
    /\ mapOut.backPos = mapIn.pos

\* C12: for every x with 0 <= x < L and every iteration order of the edge-start
\* table, _getEdge returns the edge whose interval [start, start + L/4) contains
\* x, with 0 <= offset < L/4; hence _getEdge(_getX(edge, offset)) = (edge, offset)
\* for every edge and every offset within the edge.
C12_EdgeContainsX ==
    /\ (Mapped("getEdge") /\ OnLoop(mapIn.pos)) =>
          /\ mapOut.ok
          /\ StartOf(mapOut.edge) <= mapIn.pos
          /\ mapIn.pos < StartOf(mapOut.edge) + Length
          /\ 0 <= mapOut.pos
          /\ mapOut.pos < Length
    /\ (Mapped("getX") /\ mapIn.pos < Length) =>
          /\ mapOut.backOk
          /\ mapOut.backEdge = mapIn.edge
          /\ mapOut.backPos = mapIn.pos

\* C13: _getX with an offset larger than the edge length, and _getEdge with a
\* position x >= L, fail with an error instead of returning a value.
C13_InvalidPositionRaises ==
    /\ (Mapped("getX") /\ mapIn.pos > Length) => ~mapOut.ok
    /\ (Mapped("getEdge") /\ mapIn.pos >= 4 * Length) => ~mapOut.ok


(***************************************************************************)
(* Completeness of the distance-limited query, checked under SpecQuery     *)
(***************************************************************************)
\* getCars was called with dxBack alone, or with dxForward alone
OnlyDxBack ==
    /\ args.dxBack # None /\ args.dxForward = None
    /\ args.numBack = None /\ args.numForward = None /\ args.lane = None
OnlyDxForward ==
    /\ args.dxForward # None /\ args.dxBack = None
    /\ args.numBack = None /\ args.numForward = None /\ args.lane = None

\* C20: on every sorted snapshot (equal positions allowed) and for every focal
\* index, getCars with only dxBack = d returns in its behind part every other
\* vehicle c with (x - c.x) mod L <= d, and with only dxForward = d returns in
\* its ahead part every other vehicle c with (c.x - x) mod L <= d.
C20_DistanceQueryComplete ==
    Called =>
        /\ OnlyDxBack =>
              \A j \in 1 .. Len(allCars) :
                  (allCars[j].id # Focal.id /\ DistBehind(allCars[j]) <= args.dxBack)
                      => allCars[j].id \in Ids(Behind)
        /\ OnlyDxForward =>
              \A j \in 1 .. Len(allCars) :
                  (allCars[j].id # Focal.id /\ DistAhead(allCars[j]) <= args.dxForward)
                      => allCars[j].id \in Ids(Ahead)

\* the same, on the snapshots in which no other vehicle is at the focal position
C20_CompleteWithoutFocalTie ==
    (Called /\ \A j \in 1 .. Len(allCars) :
                  allCars[j].id # Focal.id => allCars[j].x # Focal.x)
        => C20_DistanceQueryComplete


(***************************************************************************)
(* Claims about the setup, checked under Spec                              *)
(***************************************************************************)
\* _addCars has returned and simulate is about to call _run
Populated == pc = "setupDone"

\* the sum of the counts of the type specs
Total == setup.count[1] + setup.count[2]

\* the ring position the simulator has the vehicle at, in quarter units
RingPos4(c) == StartOf(c.edge) + c.off

\* C14: after _addCars the roster holds exactly N = sum of the counts vehicles
\* (numCars equals the number of roster names), each created exactly once, and
\* the vehicle at placement index i is placed at ring position i*L/N, which lies
\* in [0, L).
C14_RosterAndPlacement ==
    Populated =>
        /\ numCars = Total
        /\ Len(carNames) = numCars
        /\ \A i, j \in 1 .. Len(carNames) : carNames[i] = carNames[j] => i = j
        /\ Len(placed) = numCars
        /\ \A i \in 1 .. Len(carNames) :
              Cardinality({k \in 1 .. Len(placed) : placed[k].id = carNames[i]}) = 1
        /\ \A k \in 1 .. Len(placed) :
              /\ placed[k].x * numCars = (k - 1) * Length
              /\ RingPos4(placed[k]) = 4 * placed[k].x
              /\ 0 <= placed[k].x /\ placed[k].x < Length

\* the same with i*L/N rounded down to a whole number
C14_PlacementRoundedDown ==
    Populated =>
        /\ numCars = Total
        /\ Len(carNames) = numCars
        /\ \A i, j \in 1 .. Len(carNames) : carNames[i] = carNames[j] => i = j
        /\ Len(placed) = numCars
        /\ \A i \in 1 .. Len(carNames) :
              Cardinality({k \in 1 .. Len(placed) : placed[k].id = carNames[i]}) = 1
        /\ \A k \in 1 .. Len(placed) :
              /\ placed[k].x * numCars <= (k - 1) * Length
              /\ (k - 1) * Length < (placed[k].x + 1) * numCars
              /\ RingPos4(placed[k]) = 4 * placed[k].x
              /\ 0 <= placed[k].x /\ placed[k].x < Length

\* simulate is in its setup, or has left it, with this paramsList
InSetup == setup # NoSetup

\* what the claim calls an invalid setup
InvalidSetup ==
    \/ Total = 0
    \/ \E t \in 1 .. 2 : setup.laneSpread[t] # Spread /\ setup.laneSpread[t] \notin 0 .. (NumLanes - 1)
    \/ setup.unknown

Rebuilt == pc \in {"dispatch", "carFn", "returned"}

\* the place of a vehicle in the roster
RosterIdx(id) == CHOOSE i \in 1 .. Len(carNames) : carNames[i] = id

\* C16: in every tick, once the snapshot has been rebuilt, allCars contains every
\* roster vehicle exactly once (its length equals numCars) and is sorted
\* ascending by x, with vehicles of equal x kept in roster order.
C16_SnapshotSorted ==
    Rebuilt =>
        /\ Len(allCars) = numCars
        /\ \A i \in 1 .. Len(carNames) :
              Cardinality({k \in 1 .. Len(allCars) : allCars[k].id = carNames[i]}) = 1
        /\ \A k \in 1 .. Len(allCars) : \E i \in 1 .. Len(carNames) : carNames[i] = allCars[k].id
        /\ \A k \in 1 .. (Len(allCars) - 1) :
              /\ allCars[k].x <= allCars[k + 1].x
              /\ allCars[k].x = allCars[k + 1].x =>
                    RosterIdx(allCars[k].id) < RosterIdx(allCars[k + 1].id)

\* two vehicles at the same position, in a roster that is not in creation order
C16_Witness ==
    /\ Rebuilt
    /\ numCars = 2
    /\ carNames = <<"robot-000", "human-000">>
    /\ allCars[1].x = allCars[2].x
    /\ allCars[1].id = "robot-000"

\* the car function calls the first k entries of the snapshot are due in this tick
RECURSIVE DueCalls(_)
DueCalls(k) ==
    IF k = 0 THEN <<>>
    ELSE IF allCars[k].type = "robot"
         THEN Append(DueCalls(k - 1), [idx |-> k - 1, car |-> allCars[k], step |-> ticks - 1])
         ELSE DueCalls(k - 1)

\* C17: in every tick the car functions are called in the order of that tick's
\* snapshot: each vehicle whose type has a function gets exactly one call per
\* tick, with its snapshot index, its own record and the current step number,
\* after all vehicles of that tick were read and sorted; the others get none.
C17_DispatchInSnapshotOrder ==
    /\ pc = "read" => calls = <<>>
    /\ pc = "dispatch" => calls = DueCalls(carIdx)
    /\ pc \in {"carFn", "returned"} => calls = DueCalls(carIdx + 1)
    /\ (pc \in {"loop", "wait", "done"} /\ ticks > 0) => calls = DueCalls(Len(allCars))

\* a tick is through in which the second robot of the roster was called before
\* the first, as it was behind it on the ring
C17_Witness ==
    /\ pc = "loop"
    /\ ticks > 0
    /\ carNames = <<"robot-000", "robot-001">>
    /\ Len(calls) = 2
    /\ calls[1].car.id = "robot-001" /\ calls[1].idx = 0
    /\ calls[2].car.id = "robot-000" /\ calls[2].idx = 1

\* C18: a run that meets no failure advances the simulator exactly simSteps
\* times, one tick after another (advance, read, sort, dispatch, then the next
\* advance), then closes the control connection and then waits for the simulator
\* process; no tick is advanced after the close.
C18_TicksThenCloseThenWait ==
    /\ pc \in {"read", "dispatch", "carFn", "returned"} => ticks = step + 1
    /\ pc \in {"loop", "wait", "done"} => ticks = step
    /\ ticks <= simSteps
    /\ conn = "closed" => (pc \in {"wait", "done"} /\ ticks = simSteps)
    /\ proc = "waited" => (pc = "done" /\ conn = "closed")
    /\ pc = "done" => (ticks = simSteps /\ conn = "closed" /\ proc = "waited")
    /\ pc = "wait" => (conn = "closed" /\ proc = "running")

\* a run with vehicles is through
C18_Witness ==
    /\ pc = "done"
    /\ ticks = MaxSteps
    /\ numCars > 0
    /\ conn = "closed"
    /\ proc = "waited"

\* C19: the snapshot is read-only during a tick's dispatch: getCars leaves allCars
\* and every record unchanged and returns records of the snapshot, and between
\* the sort of one tick and the advance of the next nothing modifies, reorders
\* or rebuilds allCars.
C19_SnapshotReadOnly ==
    [][/\ Rebuilt => allCars' = allCars
       /\ allCars' # allCars => (pc \in {"loop", "read"} /\ pc' \in {"read", "dispatch"})
       /\ pc' = "returned" => \A i \in 1 .. Len(ret') : \E k \in 1 .. Len(allCars) : ret'[i] = allCars[k]
      ]_vars

\* in a tick after the first, getCars has returned neighbours
C19_Witness ==
    /\ pc = "returned"
    /\ ticks > 1
    /\ Len(ret) > 0
    /\ Len(allCars) = numCars

====
